---- MODULE Spec2Model ----
(***************************************************************************)
(* Discount evaluation and redemption engine of the campaigns app.         *)
(*                                                                         *)
(* Money (Decimal with 2 places) is an integer number of hundredths.       *)
(* Dates are integers (day numbers).  A request is one call of             *)
(* preview_discount (autocommit) or redeem_discount (one transaction);     *)
(* each database statement and each read of date.today() is its own step.  *)
(* The store gives row locks (select_for_update, and the lock a            *)
(* transaction holds on a row it inserted and has not committed) and       *)
(* read-committed visibility.                                              *)
(***************************************************************************)
EXTENDS Integers, FiniteSets, Sequences, TLC

\* ---------------------------------------------------------------- bounds
NumProcs == 3
MaxCalls == 2
MaxSeqCalls == 3
MaxDay == 1
MaxRateCalls == 2
MaxEdgeCalls == 2
MaxBurst == 3
MaxZeroCalls == 2
MaxDaysCalls == 3
MaxBaseCalls == 3
MaxAgreeCalls == 3
MaxLeftCalls == 2

\* ------------------------------------------------------------- constants
None == -1000000
NoRow == -1
Micro == 10000

Procs == 1..NumProcs
Days == 0..MaxDay
Campaigns == {"A", "B"}
Customers == {"u1", "u2"}
Keys == Campaigns \X Customers \X Days

CART == "CART"
DELIVERY == "DELIVERY"
PERCENT == "PERCENT"
FLAT == "FLAT"

OUT_OF_SCHEDULE == "Inactive or outside schedule."
NOT_TARGETED == "Customer not targeted."
DAILY_LIMIT_REACHED == "Daily usage limit reached."
NOTHING_TO_DISCOUNT == "Nothing to discount."
BUDGET_EXHAUSTED == "Budget exhausted."
NOT_APPLICABLE == "Not applicable."
RACE_DAILY_LIMIT == "Race: daily limit reached."
Missing == "<absent>"

Min(a, b) == IF a <= b THEN a ELSE b
Max(a, b) == IF a >= b THEN a ELSE b

\* Python truthiness of an optional number: None and 0 are both false.
Truthy(x) == x # None /\ x # 0

QuantizeDown_HalfUp(x) == (x + (Micro \div 2)) \div Micro

\* Decimal.quantize(Decimal("0.01"), rounding=ROUND_DOWN) of a value held in
\* 1/Micro hundredths: truncation toward zero.
QuantizeDown(x) == IF x >= 0 THEN x \div Micro ELSE -((-x) \div Micro)

Campaign(at, dt, dv, cap, all, spec, sd, ed, rdl, tbl, mx, act) ==
    [applies_to |-> at, discount_type |-> dt, discount_value |-> dv,
     max_discount_amount |-> cap, allow_all_customers |-> all,
     specific_customers |-> spec, start_date |-> sd, end_date |-> ed,
     run_days_limit |-> rdl, total_budget_limit |-> tbl,
     max_txn_per_customer_per_day |-> mx, is_active |-> act]

Cart(sub, del) == [subtotal |-> sub, delivery |-> del]

\* ---------------------------------------------------------- campaign rule
days_exhausted(c, today) ==
    IF ~Truthy(c.run_days_limit) THEN FALSE
    ELSE today > c.start_date + (c.run_days_limit - 1)

is_within_date_window_NoStart(c, today) ==
    today <= c.end_date

is_within_date_window(c, today) ==
    c.start_date <= today /\ today <= c.end_date

days_left(c, today) ==
    IF today > c.end_date THEN 0
    ELSE LET natural_left == (c.end_date - today) + 1 IN
         IF Truthy(c.run_days_limit)
         THEN LET started_span == (today - c.start_date) + 1
                  used == Max(0, started_span)
                  left_by_run == Max(0, c.run_days_limit - used)
              IN Min(natural_left, left_by_run)
         ELSE Max(0, natural_left)

eligible_customer_Everyone(c, user) ==
    c.allow_all_customers \/ c.specific_customers # {}

eligible_customer(c, user) ==
    IF ~c.allow_all_customers THEN user \in c.specific_customers ELSE TRUE

\* given: total_discount_given of the budget row that get_or_create returned.
budget_remaining(c, given) ==
    IF ~Truthy(c.total_budget_limit) THEN None
    ELSE c.total_budget_limit - given

per_day_txn_left_OneMore(c, txn_count) ==
    Max(0, (c.max_txn_per_customer_per_day + 1) - txn_count)

per_day_txn_left_OffByOne(c, txn_count) ==
    Max(0, (c.max_txn_per_customer_per_day - 1) - txn_count)

\* txn_count: of the usage row that get_or_create returned.
per_day_txn_left(c, txn_count) ==
    Max(0, c.max_txn_per_customer_per_day - txn_count)

compute_raw_discount(c, amount) ==
    LET a == Max(0, amount)
        d0 == IF c.discount_type = PERCENT
              THEN a * c.discount_value
              ELSE c.discount_value * Micro
        d1 == IF Truthy(c.max_discount_amount)
              THEN Min(d0, c.max_discount_amount * Micro)
              ELSE d0
    IN Max(0, QuantizeDown(d1))

Base_WholeCart(c, cart) == cart.subtotal + cart.delivery

\* base = cart.subtotal if c.applies_to == c.AppliesTo.CART else cart.delivery
Base(c, cart) == IF c.applies_to = CART THEN cart.subtotal ELSE cart.delivery

Rejected(c, reason) ==
    [applicable |-> FALSE, reason |-> reason, discount_amount |-> 0,
     applies_to |-> c.applies_to]

Applicable(c, disc) ==
    [applicable |-> TRUE, reason |-> Missing, discount_amount |-> disc,
     applies_to |-> c.applies_to]

RaceRejected ==
    [applicable |-> FALSE, reason |-> RACE_DAILY_LIMIT, discount_amount |-> None,
     applies_to |-> Missing]

NoResult ==
    [applicable |-> FALSE, reason |-> Missing, discount_amount |-> None,
     applies_to |-> Missing]

BudgetOutcome_NoClamp(c, disc, remaining) ==
    IF remaining # None /\ remaining <= 0 THEN Rejected(c, BUDGET_EXHAUSTED)
    ELSE IF disc > 0 THEN Applicable(c, disc) ELSE Rejected(c, NOT_APPLICABLE)

BudgetOutcome_ZeroApplies(c, disc, remaining) ==
    IF remaining # None /\ remaining <= 0 THEN Rejected(c, BUDGET_EXHAUSTED)
    ELSE LET d == IF remaining # None THEN Min(disc, remaining) ELSE disc
         IN IF d >= 0 THEN Applicable(c, d) ELSE Rejected(c, NOT_APPLICABLE)

\* The tail of preview_discount once the discount and the remaining budget are
\* known (remaining = None: no budget cap).
BudgetOutcome(c, disc, remaining) ==
    IF remaining # None /\ remaining <= 0 THEN Rejected(c, BUDGET_EXHAUSTED)
    ELSE LET d == IF remaining # None THEN Min(disc, remaining) ELSE disc
         IN IF d > 0 THEN Applicable(c, d) ELSE Rejected(c, NOT_APPLICABLE)

\* ------------------------------------------------------------------ state
VARIABLES
    camp,      \* Campaign rows (never written by the engine)
    today,     \* what date.today() returns now
    usage,     \* committed CampaignUsageDaily.txn_count per key, NoRow if absent
    budget,    \* committed CampaignBudget.total_discount_given, NoRow if absent
    lockU,     \* holder of the row lock of a usage key (0: free)
    lockB,     \* holder of the row lock of a budget row (0: free)
    pc,        \* position of each request
    req,       \* the call: kind, campaign, customer, cart
    loc,       \* what the call has read so far
    wU,        \* uncommitted usage writes of each transaction (None: no write)
    wB,        \* uncommitted budget writes of each transaction
    res,       \* the dict the call returns
    calls,     \* requests started so far
    succ,      \* history: committed successful redemptions per usage key
    epoch,     \* history: number of date changes and committed redemptions
    paid,      \* history: sum of discount_amount of committed successful redemptions
    undone,    \* history: txn_count increments that a rollback discarded
    shown      \* days_left as CampaignSerializer last returned it, and on which date

vars == <<camp, today, usage, budget, lockU, lockB, pc, req, loc, wU, wB, res,
          calls, succ, epoch, paid, undone, shown>>

ledger == <<usage, budget>>

\* Counter values as the engine sees them: an absent row counts as 0.
Cnt(k) == IF usage[k] = NoRow THEN 0 ELSE usage[k]
Given(c) == IF budget[c] = NoRow THEN 0 ELSE budget[c]

NoLoc == [epoch |-> None, dWin |-> None, dExh |-> None, dLeft |-> None, cnt |-> None,
          disc |-> None, given |-> None, dLock |-> None, cntLock |-> None]
NotShown == [days_left |-> None, today |-> None]
NoReq == [kind |-> "none", campaign |-> "A", customer |-> "u1", cart |-> Cart(0, 0)]

\* ----------------------------------------------------------------- inputs
BigCart == Cart(50000, 5000)
Carts == {BigCart, Cart(5, 0), Cart(0, 5000)}

\* Campaign rows the model starts from (tests.py setUp, test_budget_cap_stops_campaign
\* and test_targeted_customer_only, with the dates as day numbers).
Test10 == Campaign(CART, PERCENT, 1000, 20000, TRUE, {}, 0, 1, 1, 4000, 1, TRUE)
TwoADay == [Test10 EXCEPT !.max_txn_per_customer_per_day = 2,
                          !.total_budget_limit = 100000]
Targeted == Campaign(CART, FLAT, 2500, None, FALSE, {"u1"}, 0, 1, None, 2500, 2, TRUE)
Paused == [Test10 EXCEPT !.is_active = FALSE]
Upcoming == [Test10 EXCEPT !.start_date = 1]
FlatDelivery == Campaign(DELIVERY, FLAT, 500, None, FALSE, {"u1"}, 0, 1, 1, None, 1, TRUE)

\* PERCENT campaigns over the range of discount_value (0.00 .. 100.00), with
\* and without max_discount_amount, with no run-days and no budget limit.
RateValues == {0, 1, 333, 1000, 1250, 9999, 10000}
RateConfigs ==
    {Campaign(CART, PERCENT, v, cap, TRUE, {}, 0, MaxDay, None, None, 999, TRUE) :
        v \in RateValues, cap \in {None, 50}}
RateCarts == {Cart(1, 0), Cart(3, 0), Cart(99, 0), Cart(101, 5000), BigCart}

\* Campaign rows with the smallest values their fields admit, and one whose
\* end_date comes before its run days are used up.
ZeroBudget == [Test10 EXCEPT !.total_budget_limit = 0]
ZeroCap == [Test10 EXCEPT !.max_discount_amount = 0]
ZeroRunDays == [Test10 EXCEPT !.run_days_limit = 0]
ShortWindow == [Test10 EXCEPT !.end_date = 0, !.run_days_limit = 2]
EdgeConfigs == {ZeroBudget, ZeroCap, ZeroRunDays, ShortWindow}

\* Carts as a request body can carry them.
EdgeCarts == {BigCart, Cart(5, 0), Cart(-500, 5000)}

\* CartCheckSerializer.is_valid: subtotal and delivery are decimals (of at most
\* 12 digits, which every amount here is); the fields set no minimum.
is_valid(cart) == cart.subtotal \in Int /\ cart.delivery \in Int

\* Two redemptions a day on a budget of 40.00.
Thrifty == [Test10 EXCEPT !.max_txn_per_customer_per_day = 2]

\* Campaign rows whose discount_value is 0.00 (the check constraint
\* campaign_discount_value_valid admits it for both types), next to Test10,
\* whose 10% of a subtotal of 0.05 truncates to 0.00.
ZeroPercent == [Test10 EXCEPT !.discount_value = 0]
ZeroFlat == [Targeted EXCEPT !.discount_value = 0]
ZeroFlatFree == [ZeroFlat EXCEPT !.total_budget_limit = None]
ZeroConfigs == {ZeroPercent, ZeroFlat, ZeroFlatFree, Test10}
ZeroCarts == {BigCart, Cart(5, 0)}

\* A campaign that runs on both days: one redemption a day, budget 1000.00.
TwoDays == [TwoADay EXCEPT !.run_days_limit = 2, !.max_txn_per_customer_per_day = 1]

\* Carts that agree on one amount and differ on the other, with two positive
\* values of each.
BaseCarts == {BigCart, Cart(50000, 700), Cart(0, 5000), Cart(5, 5000)}
BaseConfigs == {Test10, Targeted}

\* Campaign rows and carts for a preview followed by the redemption it announces.
AgreeConfigs == {Test10, TwoADay, Targeted}
AgreeCarts == {BigCart, Cart(0, 5000)}

\* Campaign rows over the schedules the dates of the model allow (end_date >=
\* start_date, as the constraint campaign_end_after_start requires), with no
\* run_days_limit and with one of 1 or 2 days.
LeftConfigs ==
    {[Test10 EXCEPT !.start_date = w[1], !.end_date = w[2], !.run_days_limit = rdl] :
        w \in {v \in Days \X Days : v[2] >= v[1]}, rdl \in {None, 1, 2}}

ConcConfigs == {Test10, TwoADay}
SeqConfigs == {Test10, TwoADay, Targeted, Paused, Upcoming}
Configs == ConcConfigs \cup SeqConfigs \cup {FlatDelivery} \cup RateConfigs
              \cup EdgeConfigs \cup {Thrifty} \cup ZeroConfigs
              \cup {TwoDays} \cup LeftConfigs

TypeOK ==
    /\ camp \in [Campaigns -> Configs]
    /\ today \in Days
    /\ calls \in 0..Max(Max(MaxCalls, MaxSeqCalls),
                      Max(MaxBurst, Max(MaxDaysCalls, Max(MaxBaseCalls, MaxAgreeCalls))))
    /\ \A p \in Procs : pc[p] \in {"idle", "sched", "exh", "left", "budget", "ret",
                                   "lock", "block", "commit"}

\* The state after the campaigns were created, with no request in flight.
\* cold: no ledger row yet.  Otherwise every customer has previewed campaign A
\* today, so its usage rows of today and its budget row exist, at 0.
InitWith(configs, colds) ==
    /\ \E a \in configs : camp = [c \in Campaigns |-> IF c = "A" THEN a ELSE FlatDelivery]
    /\ today = 0
    /\ \E cold \in colds :
          /\ usage = [k \in Keys |->
                        IF ~cold /\ k[1] = "A" /\ k[3] = 0 THEN 0 ELSE NoRow]
          /\ budget = [c \in Campaigns |->
                         IF ~cold /\ c = "A" /\ Truthy(camp[c].total_budget_limit)
                         THEN 0 ELSE NoRow]
    /\ lockU = [k \in Keys |-> 0]
    /\ lockB = [c \in Campaigns |-> 0]
    /\ pc = [p \in Procs |-> "idle"]
    /\ req = [p \in Procs |-> NoReq]
    /\ loc = [p \in Procs |-> NoLoc]
    /\ wU = [p \in Procs |-> [k \in Keys |-> None]]
    /\ wB = [p \in Procs |-> [c \in Campaigns |-> None]]
    /\ res = [p \in Procs |-> NoResult]
    /\ calls = 0
    /\ succ = [k \in Keys |-> 0]
    /\ epoch = 0
    /\ paid = [c \in Campaigns |-> 0]
    /\ undone = 0
    /\ shown = [c \in Campaigns |-> NotShown]

Init == InitWith(ConcConfigs, BOOLEAN)
InitSeq == InitWith(SeqConfigs, {TRUE})
InitRate == InitWith(RateConfigs, {TRUE})
InitEdge == InitWith(EdgeConfigs, {TRUE})
InitBurst == InitWith({Thrifty}, {FALSE})
InitZero == InitWith(ZeroConfigs, {TRUE})
InitDays == InitWith({TwoDays}, {TRUE})
InitBase == InitWith(BaseConfigs, {TRUE})
InitAgree == InitWith(AgreeConfigs, {TRUE})
InitLeft == InitWith(LeftConfigs, {TRUE})

\* ------------------------------------------------------------------ store
InTxn(p) == req[p].kind = "redeem"

\* What transaction p sees of a row: its own write, else the committed row.
SeenU(p, k) == IF wU[p][k] # None THEN wU[p][k] ELSE usage[k]
SeenB(p, c) == IF wB[p][c] # None THEN wB[p][c] ELSE budget[c]

\* objects.get_or_create(...) on a usage row: a plain read when the row is
\* visible; otherwise an insert, which waits for a pending insert of the same
\* key by another transaction.  Inside a transaction the new row stays locked
\* and invisible to others until commit; in autocommit it is committed at once.
UsageGetOrCreate(p, k) ==
    IF SeenU(p, k) # NoRow
    THEN UNCHANGED <<usage, lockU, wU>>
    ELSE /\ lockU[k] \in {0, p}
         /\ IF InTxn(p)
            THEN /\ wU' = [wU EXCEPT ![p][k] = 0]
                 /\ lockU' = [lockU EXCEPT ![k] = p]
                 /\ UNCHANGED usage
            ELSE /\ usage' = [usage EXCEPT ![k] = 0]
                 /\ UNCHANGED <<lockU, wU>>

BudgetGetOrCreate(p, c) ==
    IF SeenB(p, c) # NoRow
    THEN UNCHANGED <<budget, lockB, wB>>
    ELSE /\ lockB[c] \in {0, p}
         /\ IF InTxn(p)
            THEN /\ wB' = [wB EXCEPT ![p][c] = 0]
                 /\ lockB' = [lockB EXCEPT ![c] = p]
                 /\ UNCHANGED budget
            ELSE /\ budget' = [budget EXCEPT ![c] = 0]
                 /\ UNCHANGED <<lockB, wB>>

RowU_NewIsOne(p, k) == IF SeenU(p, k) = NoRow THEN 1 ELSE SeenU(p, k)

\* The counter of the row get_or_create returns: a created row has the default 0.
RowU(p, k) == IF SeenU(p, k) = NoRow THEN 0 ELSE SeenU(p, k)
RowB(p, c) == IF SeenB(p, c) = NoRow THEN 0 ELSE SeenB(p, c)

\* ---------------------------------------------------------------- actions
Camp(p) == camp[req[p].campaign]
KeyOf_AnyDay(p, d) == <<req[p].campaign, req[p].customer, 0>>

\* The unique key (campaign, customer, usage_date) of the usage row a call asks for.
KeyOf(p, d) == <<req[p].campaign, req[p].customer, d>>
Idle(p) == pc[p] = "idle"

\* The call of slot p is over: its caller has the outcome, the slot is free.
Finish(p) ==
    /\ pc' = [pc EXCEPT ![p] = "idle"]
    /\ req' = [req EXCEPT ![p] = NoReq]
    /\ loc' = [loc EXCEPT ![p] = NoLoc]
    /\ res' = [res EXCEPT ![p] = NoResult]

Goto(p, nloc, label) ==
    /\ pc' = [pc EXCEPT ![p] = label]
    /\ loc' = [loc EXCEPT ![p] = nloc]
    /\ UNCHANGED <<req, res>>

\* preview_discount has its result.  A preview call returns it; redeem_discount
\* goes on to the usage lock when applicable and returns prev otherwise.
Return(p, nloc, result) ==
    /\ pc' = [pc EXCEPT ![p] = IF ~InTxn(p) THEN "ret"
                               ELSE IF result.applicable THEN "lock" ELSE "commit"]
    /\ loc' = [loc EXCEPT ![p] = nloc]
    /\ res' = [res EXCEPT ![p] = result]
    /\ UNCHANGED req

\* After the schedule checks: _eligible_customer, then on to _per_day_txn_left.
Targeting(p, nloc) ==
    IF ~eligible_customer(Camp(p), req[p].customer)
    THEN Return(p, nloc, Rejected(Camp(p), NOT_TARGETED))
    ELSE Goto(p, nloc, "left")

\* A caller starts preview_discount(campaign, cart) or redeem_discount(campaign, cart)
\* in the lowest free slot.
Call(p, kinds, cs, us, carts, limit) ==
    /\ Idle(p)
    /\ \A q \in Procs : q < p => ~Idle(q)
    /\ calls < limit
    /\ \E kind \in kinds, c \in cs, u \in us, cart \in carts :
          req' = [req EXCEPT ![p] = [kind |-> kind, campaign |-> c, customer |-> u,
                                     cart |-> cart]]
    /\ pc' = [pc EXCEPT ![p] = "sched"]
    /\ loc' = [loc EXCEPT ![p] = [NoLoc EXCEPT !.epoch = epoch]]
    /\ calls' = calls + 1
    /\ UNCHANGED <<camp, today, usage, budget, lockU, lockB, wU, wB, res, succ, paid,
                   shown, epoch, undone>>

\* Concurrent redemptions of campaign A.
Start(p) == Call(p, {"redeem"}, {"A"}, Customers, {BigCart}, MaxCalls)

\* Up to MaxBurst redemptions of campaign A in flight together.
StartBurst(p) == Call(p, {"redeem"}, {"A"}, Customers, {BigCart}, MaxBurst)

\* One caller at a time: the next call starts when no call is in flight.
StartSeq ==
    /\ \A q \in Procs : Idle(q)
    /\ Call(1, {"preview", "redeem"}, Campaigns, Customers, Carts, MaxSeqCalls)

\* Previews of campaign A over the carts of the rate table.
StartRate ==
    /\ \A q \in Procs : Idle(q)
    /\ Call(1, {"preview"}, {"A"}, {"u1"}, RateCarts, MaxRateCalls)

\* A request to the available / redeem endpoints whose body passed
\* CartCheckSerializer / RedeemSerializer, one request at a time.
StartEdge ==
    /\ \A q \in Procs : Idle(q)
    /\ Call(1, {"preview", "redeem"}, {"A"}, Customers,
            {cart \in EdgeCarts : is_valid(cart)}, MaxEdgeCalls)

\* Calls on the campaigns whose discount can compute to 0.00, one at a time.
StartZero ==
    /\ \A q \in Procs : Idle(q)
    /\ Call(1, {"preview", "redeem"}, {"A"}, Customers, ZeroCarts, MaxZeroCalls)

\* Redemptions of both campaigns by both customers, one at a time, over two days.
StartDays ==
    /\ \A q \in Procs : Idle(q)
    /\ Call(1, {"redeem"}, Campaigns, Customers, {BigCart}, MaxDaysCalls)

\* Calls of customer u1 on a CART and a DELIVERY campaign, one at a time.
StartBase ==
    /\ \A q \in Procs : Idle(q)
    /\ Call(1, {"preview", "redeem"}, Campaigns, {"u1"}, BaseCarts, MaxBaseCalls)

\* Previews of campaign A with a full cart, one at a time.
StartLeft ==
    /\ \A q \in Procs : Idle(q)
    /\ Call(1, {"preview"}, {"A"}, {"u1"}, {BigCart}, MaxLeftCalls)

\* Calls on campaign A, one at a time.
StartAgree ==
    /\ \A q \in Procs : Idle(q)
    /\ Call(1, {"preview", "redeem"}, {"A"}, Customers, AgreeCarts, MaxAgreeCalls)

\* A caller that holds the result of a preview redeems the same campaign with
\* the same cart (the available endpoint, then the redeem endpoint).
ThenRedeem ==
    /\ pc[1] = "ret"
    /\ Call(2, {"redeem"}, {req[1].campaign}, {req[1].customer}, {req[1].cart},
            MaxAgreeCalls)

\* A caller that holds the result of a preview asks for a preview of the same
\* campaign with any cart.
Twin ==
    /\ pc[1] = "ret"
    /\ Call(2, {"preview"}, {req[1].campaign}, {req[1].customer}, BaseCarts,
            MaxBaseCalls)

\* A caller that holds the result of a preview asks for the same preview again.
Again ==
    /\ pc[1] = "ret"
    /\ Call(2, {"preview"}, {req[1].campaign}, {req[1].customer}, {req[1].cart},
            MaxSeqCalls)

\* c.is_active and c.is_within_date_window() [and not c.days_exhausted() when
\* run_days_limit is falsy, which reads no date]
SchedWindow(p) ==
    /\ pc[p] = "sched"
    /\ LET c == Camp(p)
           nloc == [loc[p] EXCEPT !.dWin = today]
       IN IF ~c.is_active
          THEN Return(p, loc[p], Rejected(c, OUT_OF_SCHEDULE))
          ELSE IF ~is_within_date_window(c, today)
          THEN Return(p, nloc, Rejected(c, OUT_OF_SCHEDULE))
          ELSE IF Truthy(c.run_days_limit)
          THEN Goto(p, nloc, "exh")
          ELSE Targeting(p, nloc)
    /\ UNCHANGED <<camp, today, usage, budget, lockU, lockB, wU, wB, calls, succ, paid, shown,
                   epoch, undone>>

\* not c.days_exhausted(), which reads date.today() again
SchedExhausted(p) ==
    /\ pc[p] = "exh"
    /\ LET nloc == [loc[p] EXCEPT !.dExh = today] IN
       IF days_exhausted(Camp(p), today)
       THEN Return(p, nloc, Rejected(Camp(p), OUT_OF_SCHEDULE))
       ELSE Targeting(p, nloc)
    /\ UNCHANGED <<camp, today, usage, budget, lockU, lockB, wU, wB, calls, succ, paid, shown,
                   epoch, undone>>

UsageAndBase_BaseFirst(c, cnt, base) ==
    IF base <= 0 THEN NOTHING_TO_DISCOUNT
    ELSE IF per_day_txn_left(c, cnt) <= 0 THEN DAILY_LIMIT_REACHED
    ELSE Missing

\* The daily-usage branch and the base branch of preview_discount: the reason
\* of the first that fails, Missing when both pass.
UsageAndBase(c, cnt, base) ==
    IF per_day_txn_left(c, cnt) <= 0 THEN DAILY_LIMIT_REACHED
    ELSE IF base <= 0 THEN NOTHING_TO_DISCOUNT
    ELSE Missing

\* _per_day_txn_left, then the base check and _compute_raw_discount, and
\* _budget_remaining when the campaign has no budget limit.
TxnLeft(p) ==
    /\ pc[p] = "left"
    /\ LET c == Camp(p)
           k == KeyOf(p, today)
           cnt == RowU(p, k)
           base == Base(c, req[p].cart)
           disc == compute_raw_discount(c, base)
           nloc == [loc[p] EXCEPT !.dLeft = today, !.cnt = cnt]
       IN /\ UsageGetOrCreate(p, k)
          /\ IF UsageAndBase(c, cnt, base) # Missing
             THEN Return(p, nloc, Rejected(c, UsageAndBase(c, cnt, base)))
             ELSE IF budget_remaining(c, 0) = None
             THEN Return(p, [nloc EXCEPT !.disc = disc], BudgetOutcome(c, disc, None))
             ELSE Goto(p, [nloc EXCEPT !.disc = disc], "budget")
    /\ UNCHANGED <<camp, today, budget, lockB, wB, calls, succ, paid, shown, epoch, undone>>

\* _budget_remaining for a campaign with a budget limit, and the rest of preview_discount.
BudgetRead(p) ==
    /\ pc[p] = "budget"
    /\ LET c == Camp(p)
           given == RowB(p, req[p].campaign)
       IN /\ BudgetGetOrCreate(p, req[p].campaign)
          /\ Return(p, [loc[p] EXCEPT !.given = given],
                    BudgetOutcome(c, loc[p].disc, budget_remaining(c, given)))
    /\ UNCHANGED <<camp, today, usage, lockU, wU, calls, succ, paid, shown, epoch, undone>>

LockedCount_Strict(p, k) == RowU(p, k) + 1

LockedCount_Stale(p, k) == loc[p].cnt

\* daily.txn_count of the row that select_for_update().get_or_create returned.
LockedCount(p, k) == RowU(p, k)

\* select_for_update().get_or_create(usage row of today), the re-check, and
\* daily.txn_count += 1; daily.save()
LockDaily(p) ==
    /\ pc[p] = "lock"
    /\ LET c == Camp(p)
           k == KeyOf(p, today)
           txn_count == LockedCount(p, k)
       IN /\ lockU[k] \in {0, p}
          /\ lockU' = [lockU EXCEPT ![k] = p]
          /\ loc' = [loc EXCEPT ![p].dLock = today, ![p].cntLock = txn_count]
          /\ IF txn_count >= c.max_txn_per_customer_per_day
             THEN /\ res' = [res EXCEPT ![p] = RaceRejected]
                  /\ pc' = [pc EXCEPT ![p] = "commit"]
                  /\ wU' = [wU EXCEPT ![p][k] = txn_count]
             ELSE /\ wU' = [wU EXCEPT ![p][k] = txn_count + 1]
                  /\ pc' = [pc EXCEPT ![p] =
                              IF Truthy(c.total_budget_limit) THEN "block" ELSE "commit"]
                  /\ UNCHANGED res
    /\ UNCHANGED <<camp, today, usage, budget, lockB, req, wB, calls, succ, paid,
                   shown, epoch, undone>>

Disc_Raw(p) == loc[p].disc

\* disc = prev["discount_amount"]
Disc(p) == res[p].discount_amount

LockedGiven_Stale(p, c) == loc[p].given

\* budget.total_discount_given of the row that select_for_update().get_or_create
\* returned: the committed value at the time the lock is granted.
LockedGiven(p, c) == RowB(p, c)

\* select_for_update().get_or_create(budget row);
\* budget.total_discount_given += disc; budget.save()
LockBudget(p) ==
    /\ pc[p] = "block"
    /\ LET c == req[p].campaign IN
       /\ lockB[c] \in {0, p}
       /\ lockB' = [lockB EXCEPT ![c] = p]
       /\ wB' = [wB EXCEPT ![p][c] = LockedGiven(p, c) + Disc(p)]
    /\ pc' = [pc EXCEPT ![p] = "commit"]
    /\ UNCHANGED <<camp, today, usage, budget, lockU, req, loc, wU, res, calls,
                   succ, paid, shown, epoch, undone>>

Redeemed(p) == res[p].applicable

ReleaseAll(p) ==
    /\ lockU' = [k \in Keys |-> IF lockU[k] = p THEN 0 ELSE lockU[k]]
    /\ lockB' = [c \in Campaigns |-> IF lockB[c] = p THEN 0 ELSE lockB[c]]
    /\ wU' = [wU EXCEPT ![p] = [k \in Keys |-> None]]
    /\ wB' = [wB EXCEPT ![p] = [c \in Campaigns |-> None]]

\* preview_discount (called on its own) returns its dict.
PreviewReturn(p) ==
    /\ pc[p] = "ret"
    /\ Finish(p)
    /\ UNCHANGED <<camp, today, usage, budget, lockU, lockB, wU, wB, calls, succ, paid, shown,
                   epoch, undone>>

\* transaction.atomic exits normally: the writes become visible and the locks go.
Commit(p) ==
    /\ pc[p] = "commit"
    /\ usage' = [k \in Keys |-> IF wU[p][k] # None THEN wU[p][k] ELSE usage[k]]
    /\ budget' = [c \in Campaigns |-> IF wB[p][c] # None THEN wB[p][c] ELSE budget[c]]
    /\ ReleaseAll(p)
    /\ Finish(p)
    /\ succ' = IF Redeemed(p)
               THEN [succ EXCEPT ![KeyOf(p, loc[p].dLock)] = @ + 1]
               ELSE succ
    /\ epoch' = IF Redeemed(p) THEN epoch + 1 ELSE epoch
    /\ paid' = IF Redeemed(p)
               THEN [paid EXCEPT ![req[p].campaign] = @ + res[p].discount_amount]
               ELSE paid
    /\ UNCHANGED <<camp, today, calls, undone, shown>>

Fault_Partial(p) ==
    /\ pc[p] \in {"left", "budget", "lock", "block", "commit"}
    /\ usage' = [k \in Keys |-> IF wU[p][k] # None THEN wU[p][k] ELSE usage[k]]
    /\ ReleaseAll(p)
    /\ Finish(p)
    /\ undone' = undone
    /\ UNCHANGED <<camp, today, budget, calls, succ, paid, shown, epoch>>

\* A persistence fault (lock timeout, conflict, storage failure) raises out of
\* the call; transaction.atomic rolls the transaction back.
Fault(p) ==
    /\ pc[p] \in {"left", "budget", "lock", "block", "commit"}
    /\ ReleaseAll(p)
    /\ Finish(p)
    /\ undone' = IF pc[p] \in {"block", "commit"} /\ res[p].applicable
                 THEN undone + 1 ELSE undone
    /\ UNCHANGED <<camp, today, usage, budget, calls, succ, paid, shown, epoch>>

\* CampaignSerializer.get_days_left: obj.days_left, which reads date.today().
Retrieve(c) ==
    /\ shown' = [shown EXCEPT ![c] = [days_left |-> days_left(camp[c], today),
                                      today |-> today]]
    /\ UNCHANGED <<camp, today, usage, budget, lockU, lockB, pc, req, loc, wU, wB,
                   res, calls, succ, epoch, paid, undone>>

\* Midnight.
Tick ==
    /\ today < MaxDay
    /\ today' = today + 1
    /\ epoch' = epoch + 1
    /\ UNCHANGED <<camp, usage, budget, lockU, lockB, pc, req, loc, wU, wB, res,
                   calls, succ, paid, shown, undone>>

Next ==
    \/ \E p \in Procs : Start(p)
    \/ \E p \in Procs : SchedWindow(p)
    \/ \E p \in Procs : SchedExhausted(p)
    \/ \E p \in Procs : TxnLeft(p)
    \/ \E p \in Procs : BudgetRead(p)
    \/ \E p \in Procs : LockDaily(p)
    \/ \E p \in Procs : LockBudget(p)
    \/ \E p \in Procs : Commit(p)
    \/ \E p \in Procs : Fault(p)
    \/ Tick

NextSeq ==
    \/ StartSeq
    \/ Again
    \/ \E p \in Procs : SchedWindow(p)
    \/ \E p \in Procs : SchedExhausted(p)
    \/ \E p \in Procs : TxnLeft(p)
    \/ \E p \in Procs : BudgetRead(p)
    \/ \E p \in Procs : PreviewReturn(p)
    \/ \E p \in Procs : LockDaily(p)
    \/ \E p \in Procs : LockBudget(p)
    \/ \E p \in Procs : Commit(p)
    \/ \E p \in Procs : Fault(p)
    \/ Tick

\* The steps of a preview of a campaign with no run-days and no budget limit.
NextRate ==
    \/ StartRate
    \/ \E p \in Procs : SchedWindow(p)
    \/ \E p \in Procs : TxnLeft(p)
    \/ \E p \in Procs : PreviewReturn(p)

NextBurst ==
    \/ \E p \in Procs : StartBurst(p)
    \/ \E p \in Procs : SchedWindow(p)
    \/ \E p \in Procs : SchedExhausted(p)
    \/ \E p \in Procs : TxnLeft(p)
    \/ \E p \in Procs : BudgetRead(p)
    \/ \E p \in Procs : LockDaily(p)
    \/ \E p \in Procs : LockBudget(p)
    \/ \E p \in Procs : Commit(p)
    \/ \E p \in Procs : Fault(p)
    \/ Tick

NextEdge ==
    \/ StartEdge
    \/ \E p \in Procs : SchedWindow(p)
    \/ \E p \in Procs : SchedExhausted(p)
    \/ \E p \in Procs : TxnLeft(p)
    \/ \E p \in Procs : BudgetRead(p)
    \/ \E p \in Procs : PreviewReturn(p)
    \/ \E p \in Procs : LockDaily(p)
    \/ \E p \in Procs : LockBudget(p)
    \/ \E p \in Procs : Commit(p)
    \/ \E p \in Procs : Fault(p)
    \/ Tick

NextZero ==
    \/ StartZero
    \/ \E p \in Procs : SchedWindow(p)
    \/ \E p \in Procs : SchedExhausted(p)
    \/ \E p \in Procs : TxnLeft(p)
    \/ \E p \in Procs : BudgetRead(p)
    \/ \E p \in Procs : PreviewReturn(p)
    \/ \E p \in Procs : LockDaily(p)
    \/ \E p \in Procs : LockBudget(p)
    \/ \E p \in Procs : Commit(p)
    \/ \E p \in Procs : Fault(p)
    \/ Tick

NextDays ==
    \/ StartDays
    \/ \E p \in Procs : SchedWindow(p)
    \/ \E p \in Procs : SchedExhausted(p)
    \/ \E p \in Procs : TxnLeft(p)
    \/ \E p \in Procs : BudgetRead(p)
    \/ \E p \in Procs : LockDaily(p)
    \/ \E p \in Procs : LockBudget(p)
    \/ \E p \in Procs : Commit(p)
    \/ \E p \in Procs : Fault(p)
    \/ Tick

NextBase ==
    \/ StartBase
    \/ Twin
    \/ \E p \in Procs : SchedWindow(p)
    \/ \E p \in Procs : SchedExhausted(p)
    \/ \E p \in Procs : TxnLeft(p)
    \/ \E p \in Procs : BudgetRead(p)
    \/ \E p \in Procs : PreviewReturn(p)
    \/ \E p \in Procs : LockDaily(p)
    \/ \E p \in Procs : LockBudget(p)
    \/ \E p \in Procs : Commit(p)
    \/ \E p \in Procs : Fault(p)
    \/ Tick

NextAgree ==
    \/ StartAgree
    \/ ThenRedeem
    \/ \E p \in Procs : SchedWindow(p)
    \/ \E p \in Procs : SchedExhausted(p)
    \/ \E p \in Procs : TxnLeft(p)
    \/ \E p \in Procs : BudgetRead(p)
    \/ \E p \in Procs : PreviewReturn(p)
    \/ \E p \in Procs : LockDaily(p)
    \/ \E p \in Procs : LockBudget(p)
    \/ \E p \in Procs : Commit(p)
    \/ \E p \in Procs : Fault(p)
    \/ Tick

NextLeft ==
    \/ StartLeft
    \/ \E c \in Campaigns : Retrieve(c)
    \/ \E p \in Procs : SchedWindow(p)
    \/ \E p \in Procs : SchedExhausted(p)
    \/ \E p \in Procs : TxnLeft(p)
    \/ \E p \in Procs : BudgetRead(p)
    \/ \E p \in Procs : PreviewReturn(p)
    \/ Tick

\* Concurrent redemptions.
Spec == Init /\ [][Next]_vars

\* Calls one after the other, previews and redemptions, every campaign row.
SpecSeq == InitSeq /\ [][NextSeq]_vars

\* The next statement of request p.  The thread that serves a request runs
\* its statements one after the other whenever the store lets it.
Step(p) ==
    \/ SchedWindow(p)
    \/ SchedExhausted(p)
    \/ TxnLeft(p)
    \/ BudgetRead(p)
    \/ LockDaily(p)
    \/ LockBudget(p)
    \/ Commit(p)

Fairness == \A p \in Procs : WF_vars(Step(p))

\* Concurrent redemptions under fair scheduling: a request whose next
\* statement can run does run.  Faults and date changes may or may not happen.
SpecLive == Init /\ [][Next]_vars /\ Fairness

\* A burst of concurrent redemptions on a ledger whose rows exist.
SpecBurst == InitBurst /\ [][NextBurst]_vars

\* Validated requests, one at a time, on the campaign rows with edge values.
SpecEdge == InitEdge /\ [][NextEdge]_vars

\* Calls on campaigns whose discount computes to 0.00.
SpecZero == InitZero /\ [][NextZero]_vars

\* Redemptions one at a time of a campaign that runs on both days.
SpecDays == InitDays /\ [][NextDays]_vars

\* Previews of one campaign with two carts, after calls made one at a time.
SpecBase == InitBase /\ [][NextBase]_vars

\* A preview and then the redemption of the same campaign, customer and cart.
SpecAgree == InitAgree /\ [][NextAgree]_vars

\* days_left as the serializer shows it, next to previews of the same campaign.
SpecLeft == InitLeft /\ [][NextLeft]_vars

\* Previews over the rate table: _compute_raw_discount on a range of inputs.
SpecRate == InitRate /\ [][NextRate]_vars

\* ======================================================================
\* Properties
\* ======================================================================
CntIn(u, k) == IF u[k] = NoRow THEN 0 ELSE u[k]
GivenIn(b, c) == IF b[c] = NoRow THEN 0 ELSE b[c]
CapOf(k) == camp[k[1]].max_txn_per_customer_per_day

\* The result of preview_discount is in res[p]: a preview call about to return,
\* or a redemption that has revalidated and not yet re-checked under the lock.
HasPreview(p) ==
    \/ pc[p] = "ret"
    \/ pc[p] = "lock"
    \/ pc[p] = "commit" /\ loc[p].dLock = None

\* The six checks of the rule, stated on the dates the call read and on the
\* committed ledger.
RefSchedule(p) ==
    LET c == Camp(p) IN
    /\ c.is_active
    /\ c.start_date <= loc[p].dWin /\ loc[p].dWin <= c.end_date
    /\ ~(c.run_days_limit \notin {None, 0}
         /\ loc[p].dExh > c.start_date + (c.run_days_limit - 1))
RefEligible(p) ==
    Camp(p).allow_all_customers \/ req[p].customer \in Camp(p).specific_customers
RefUsed(p) == Cnt(KeyOf(p, loc[p].dLeft))
RefBase(p) ==
    IF Camp(p).applies_to = CART THEN req[p].cart.subtotal ELSE req[p].cart.delivery
RefRemaining(p) == budget_remaining(Camp(p), Given(req[p].campaign))
RefDiscount(p) ==
    LET raw == compute_raw_discount(Camp(p), RefBase(p)) IN
    IF RefRemaining(p) = None THEN raw ELSE Min(raw, RefRemaining(p))

ExpectedReason(p) ==
    IF ~RefSchedule(p) THEN OUT_OF_SCHEDULE
    ELSE IF ~RefEligible(p) THEN NOT_TARGETED
    ELSE IF RefUsed(p) >= Camp(p).max_txn_per_customer_per_day THEN DAILY_LIMIT_REACHED
    ELSE IF RefBase(p) <= 0 THEN NOTHING_TO_DISCOUNT
    ELSE IF RefRemaining(p) # None /\ RefRemaining(p) <= 0 THEN BUDGET_EXHAUSTED
    ELSE IF RefDiscount(p) <= 0 THEN NOT_APPLICABLE
    ELSE Missing

\* Every date the call read is the same day.
OneDay(p) ==
    /\ loc[p].dLeft # None
    /\ loc[p].dWin = loc[p].dLeft
    /\ loc[p].dExh \in {None, loc[p].dLeft}
    /\ loc[p].dLock \in {None, loc[p].dLeft}

\* ---------------------------------------------------------------------
\* C1  Daily cap: under any interleaving of concurrent redemptions, the
\* txn_count of every (campaign, customer, date) record and the number of
\* successful redemptions committed for it are at most the campaign's
\* max_txn_per_customer_per_day.
C1_DailyCap ==
    \A k \in Keys : Cnt(k) <= CapOf(k) /\ succ[k] <= CapOf(k)

\* The cap is reached and a concurrent redeemer was turned away under the lock.
C1_Witness ==
    \E p \in Procs :
        /\ pc[p] = "commit"
        /\ res[p] = RaceRejected
        /\ succ[KeyOf(p, loc[p].dLock)] = CapOf(KeyOf(p, loc[p].dLock))

\* ---------------------------------------------------------------------
\* C2  Budget invariant: for every campaign with a total_budget_limit the
\* committed total_discount_given never exceeds the limit.
C2_BudgetWithinLimit ==
    \A c \in Campaigns :
        camp[c].total_budget_limit # None => Given(c) <= camp[c].total_budget_limit

\* ---------------------------------------------------------------------
\* C3  All-or-nothing: a persistence fault leaves the committed txn_count
\* and total_discount_given as they were, and no step makes an increment
\* of a txn_count of a budget-capped campaign visible without the budget
\* addition of the same redemption.
C3_Step ==
    /\ \A p \in Procs : Fault(p) => usage' = usage /\ budget' = budget
    /\ \A k \in Keys :
          (CntIn(usage', k) > CntIn(usage, k) /\ Truthy(camp[k[1]].total_budget_limit))
              => GivenIn(budget', k[1]) > GivenIn(budget, k[1])
C3_AllOrNothing == [][C3_Step]_vars

\* A fault has struck a redemption after its daily-usage increment.
C3_Witness == undone > 0 /\ \E k \in Keys : succ[k] > 0

\* ---------------------------------------------------------------------
\* C4  Non-mutation of preview: while the only calls in flight are
\* preview_discount calls, no step changes the Budget Ledger or the Daily
\* Usage Records (no row is created or modified).
C4_Step ==
    ((\E q \in Procs : ~Idle(q)) /\ (\A q \in Procs : ~Idle(q) => req[q].kind = "preview"))
        => usage' = usage /\ budget' = budget
C4_PreviewLeavesLedger == [][C4_Step]_vars

\* ---------------------------------------------------------------------
\* C5  Evaluation order: the result of preview_discount carries the reason
\* of the first failing check in the order schedule, targeting, daily
\* limit, base, budget, zero discount, and is applicable when none fails.
C5_EvaluationOrder ==
    \A p \in Procs :
        HasPreview(p) =>
            /\ res[p].reason = ExpectedReason(p)
            /\ res[p].applicable = (ExpectedReason(p) = Missing)

\* A customer who is not targeted, with an empty cart, on an exhausted budget.
C5_Witness ==
    \E p \in Procs :
        /\ pc[p] = "ret"
        /\ res[p].reason = NOT_TARGETED
        /\ ~RefEligible(p)
        /\ RefBase(p) <= 0
        /\ RefRemaining(p) # None /\ RefRemaining(p) <= 0

\* ---------------------------------------------------------------------
\* C6  Determinism of preview: a second preview of the same campaign,
\* customer and cart, made after the first has its result and with no date
\* change and no redemption since the first began, has the same result.
C6_PreviewDeterministic ==
    (/\ pc[1] = "ret" /\ pc[2] = "ret"
     /\ req[1] = req[2]
     /\ loc[1].epoch = epoch)
        => res[1] = res[2]

\* Two such previews, the first of which found no ledger row, both applicable.
C6_Witness ==
    /\ pc[1] = "ret" /\ pc[2] = "ret"
    /\ req[1] = req[2]
    /\ loc[1].epoch = epoch
    /\ succ = [k \in Keys |-> 0]
    /\ res[2].applicable

\* ---------------------------------------------------------------------
\* C7  Sequential daily limit: with calls made one after the other on one
\* day, a redemption that passes every check but the daily one succeeds
\* while fewer than max_txn_per_customer_per_day redemptions of its
\* (campaign, customer, day) have succeeded, and is rejected with the
\* daily-limit reason from then on.
OtherwiseApplicable(p) ==
    /\ RefSchedule(p)
    /\ RefEligible(p)
    /\ RefBase(p) > 0
    /\ ~(RefRemaining(p) # None /\ RefRemaining(p) <= 0)
    /\ RefDiscount(p) > 0

C7_SequentialDailyLimit ==
    \A p \in Procs :
        (pc[p] = "commit" /\ OtherwiseApplicable(p) /\ OneDay(p)) =>
            IF succ[KeyOf(p, loc[p].dLeft)] < Camp(p).max_txn_per_customer_per_day
            THEN res[p].applicable
            ELSE ~res[p].applicable /\ res[p].reason = DAILY_LIMIT_REACHED

\* Two redemptions a day allowed, two made: the third is rejected.
C7_Witness ==
    \E p \in Procs :
        /\ pc[p] = "commit" /\ OtherwiseApplicable(p) /\ OneDay(p)
        /\ Camp(p).max_txn_per_customer_per_day = 2
        /\ succ[KeyOf(p, loc[p].dLeft)] = Camp(p).max_txn_per_customer_per_day
        /\ res[p].reason = DAILY_LIMIT_REACHED

\* ---------------------------------------------------------------------
\* C8  Budget clamp and exhaustion: for a campaign with a positive budget
\* limit, a preview that passes checks 1-4 is applicable with the remaining
\* budget as its discount when the raw discount exceeds a positive
\* remaining budget, and is rejected as budget-exhausted when nothing
\* remains; a redemption of the whole remaining budget leaves 0.
PassesFirstFour(p) ==
    /\ RefSchedule(p)
    /\ RefEligible(p)
    /\ RefUsed(p) < Camp(p).max_txn_per_customer_per_day
    /\ RefBase(p) > 0

PositiveLimit(c) == c.total_budget_limit # None /\ c.total_budget_limit > 0

C8_State ==
    \A p \in Procs :
        (HasPreview(p) /\ PassesFirstFour(p) /\ PositiveLimit(Camp(p))) =>
            LET rem == Camp(p).total_budget_limit - Given(req[p].campaign)
                raw == compute_raw_discount(Camp(p), RefBase(p))
            IN /\ (rem > 0 /\ raw > rem) =>
                      (res[p].applicable /\ res[p].discount_amount = rem)
               /\ rem <= 0 =>
                      (~res[p].applicable /\ res[p].reason = BUDGET_EXHAUSTED)

C8_Step ==
    \A p \in Procs :
        (/\ Commit(p) /\ res[p].applicable /\ PositiveLimit(Camp(p))
         /\ res[p].discount_amount =
                Camp(p).total_budget_limit - Given(req[p].campaign))
            => GivenIn(budget', req[p].campaign) = Camp(p).total_budget_limit

C8_BudgetClamp == []C8_State /\ [][C8_Step]_vars

\* A preview rejected as budget-exhausted after the clamped redemption.
C8_Witness ==
    \E p \in Procs :
        /\ pc[p] = "ret" /\ PassesFirstFour(p) /\ PositiveLimit(Camp(p))
        /\ Given(req[p].campaign) = Camp(p).total_budget_limit
        /\ compute_raw_discount(Camp(p), RefBase(p)) > Camp(p).total_budget_limit
        /\ res[p].reason = BUDGET_EXHAUSTED

\* ---------------------------------------------------------------------
\* C9  Ledger update on success: the commit of a redemption that returns
\* applicable with discount X raises the txn_count of the record of its
\* campaign, customer and the date it locked by exactly 1, changes no
\* other counter, and raises total_discount_given of its campaign by
\* exactly X when the campaign has a budget limit (one that
\* redeem_discount takes as a cap: set and not 0.00).
C9_Step ==
    \A p \in Procs :
        (Commit(p) /\ res[p].applicable) =>
            LET key == KeyOf(p, loc[p].dLock)
                c == req[p].campaign
            IN /\ CntIn(usage', key) = CntIn(usage, key) + 1
               /\ \A k \in Keys \ {key} : CntIn(usage', k) = CntIn(usage, k)
               /\ GivenIn(budget', c) =
                     GivenIn(budget, c) +
                        (IF Truthy(camp[c].total_budget_limit)
                         THEN res[p].discount_amount ELSE 0)
               /\ \A c2 \in Campaigns \ {c} : GivenIn(budget', c2) = GivenIn(budget, c2)
C9_LedgerUpdate == [][C9_Step]_vars

\* A second successful redemption of one record has been committed.
C9_Witness ==
    \E k \in Keys : succ[k] = 2 /\ Cnt(k) = 2 /\ Given(k[1]) > 0

\* ---------------------------------------------------------------------
\* C10  Out of schedule dominates: a call that finds the campaign inactive,
\* or reads a date before start_date or after end_date, gets the
\* out-of-schedule rejection whatever the other fields are, and a
\* redemption then writes nothing.
OutOfWindow(p) ==
    \/ ~Camp(p).is_active
    \/ /\ loc[p].dWin # None
       /\ (loc[p].dWin < Camp(p).start_date \/ loc[p].dWin > Camp(p).end_date)

C10_State ==
    \A p \in Procs :
        (pc[p] \notin {"idle", "sched"} /\ OutOfWindow(p)) =>
            /\ pc[p] \in {"ret", "commit"}
            /\ res[p] = [applicable |-> FALSE, reason |-> OUT_OF_SCHEDULE,
                         discount_amount |-> 0, applies_to |-> Camp(p).applies_to]
            /\ \A k \in Keys : wU[p][k] = None
            /\ \A c \in Campaigns : wB[p][c] = None

C10_Step ==
    \A p \in Procs :
        (Commit(p) /\ OutOfWindow(p)) => (usage' = usage /\ budget' = budget)

C11_Targeting ==
    \A p \in Procs :
        (HasPreview(p) /\ RefSchedule(p)) =>
            LET c == Camp(p)
                outside == ~c.allow_all_customers
                              /\ req[p].customer \notin c.specific_customers
            IN /\ (res[p].reason = NOT_TARGETED) = outside
               /\ (/\ ~outside
                   /\ RefUsed(p) < c.max_txn_per_customer_per_day
                   /\ RefBase(p) > 0
                   /\ ~(RefRemaining(p) # None /\ RefRemaining(p) <= 0)
                   /\ RefDiscount(p) > 0) => res[p].applicable

\* Of two customers of one targeted campaign, the member has been served
\* and the other is turned away.
C11_Witness ==
    \E p \in Procs :
        /\ pc[p] = "ret"
        /\ ~Camp(p).allow_all_customers
        /\ req[p].customer \notin Camp(p).specific_customers
        /\ res[p].reason = NOT_TARGETED
        /\ RefBase(p) > 0
        /\ \E k \in Keys : k[1] = req[p].campaign /\ succ[k] > 0

\* ---------------------------------------------------------------------
\* C12  Rounding law: for a PERCENT campaign with value V in [0, 100] and a
\* base B > 0, the discount computed before max_discount_amount is B*V/100
\* truncated toward zero to 2 places: it is the one amount r with
\* r <= B*V/100 < r + 0.01, it is never above B and never negative; with
\* no cap and no budget limit the preview is applicable with exactly r
\* when r > 0 (10% of 500.00 gives 50.00).
C12_RoundingLaw ==
    \A p \in Procs :
        (/\ pc[p] = "ret" /\ loc[p].disc # None
         /\ Camp(p).discount_type = PERCENT
         /\ Camp(p).discount_value >= 0 /\ Camp(p).discount_value <= 10000
         /\ RefBase(p) > 0
         /\ Camp(p).max_discount_amount = None
         /\ Camp(p).total_budget_limit = None) =>
            LET r == loc[p].disc
                exact == RefBase(p) * Camp(p).discount_value
            IN /\ r * Micro <= exact /\ exact < (r + 1) * Micro
               /\ r <= RefBase(p)
               /\ r >= 0
               /\ res[p].applicable = (r > 0)
               /\ res[p].discount_amount = r
               /\ (Camp(p).discount_value = 1000 /\ RefBase(p) = 50000) => r = 5000

\* 3.33% of 1.01 is 0.033633: the preview gives 0.03.
C12_Witness ==
    \E p \in Procs :
        /\ pc[p] = "ret" /\ res[p].applicable
        /\ Camp(p).max_discount_amount = None
        /\ res[p].discount_amount * Micro < RefBase(p) * Camp(p).discount_value

\* ---------------------------------------------------------------------
\* C13  Race rejection: the result of a redemption turned away by the
\* re-check under the usage lock has the fields of a rule rejection
\* (applicable false, a reason, discount_amount 0, applies_to of the
\* campaign), its reason is none of the rule reasons, and the redemption
\* has no pending change of a counter.
C13_RaceRejectionShape ==
    \A p \in Procs :
        (pc[p] = "commit" /\ loc[p].dLock # None /\ ~res[p].applicable) =>
            /\ res[p].reason \notin {OUT_OF_SCHEDULE, NOT_TARGETED, DAILY_LIMIT_REACHED,
                                     NOTHING_TO_DISCOUNT, BUDGET_EXHAUSTED,
                                     NOT_APPLICABLE, Missing}
            /\ \A k \in Keys : wU[p][k] # None => wU[p][k] = CntIn(usage, k)
            /\ \A c \in Campaigns : wB[p][c] # None => wB[p][c] = GivenIn(budget, c)
            /\ res[p].discount_amount = 0
            /\ res[p].applies_to = Camp(p).applies_to

\* ---------------------------------------------------------------------
\* C14  Deadlock freedom: no set of concurrent redemptions reaches a state
\* in which each of them waits for a row lock that another of them holds.

\* The statement that request p is at is blocked by a row lock of q.
WaitsFor(p, q) ==
    /\ q # p
    /\ \/ pc[p] = "left" /\ SeenU(p, KeyOf(p, today)) = NoRow
                         /\ lockU[KeyOf(p, today)] = q
       \/ pc[p] = "budget" /\ SeenB(p, req[p].campaign) = NoRow
                           /\ lockB[req[p].campaign] = q
       \/ pc[p] = "lock" /\ lockU[KeyOf(p, today)] = q
       \/ pc[p] = "block" /\ lockB[req[p].campaign] = q

Deadlocked(S) == S # {} /\ \A p \in S : \E q \in S : WaitsFor(p, q)

C14_NoDeadlock == \A S \in SUBSET Procs : ~Deadlocked(S)

\* ---------------------------------------------------------------------
\* C15  Validation fault: a request whose subtotal or delivery is negative
\* is rejected before the engine runs, so no result of preview_discount or
\* redeem_discount (such as 'nothing to discount') is ever produced for it.
C15_NegativeNeverEvaluated ==
    \A p \in Procs :
        pc[p] \in {"ret", "commit"} =>
            req[p].cart.subtotal >= 0 /\ req[p].cart.delivery >= 0

\* ---------------------------------------------------------------------
\* C16  Bounded budget overshoot: under any interleaving of concurrent
\* redemptions of one budget-capped campaign, after the commit of a
\* redemption total_discount_given exceeds total_budget_limit by at most
\* the discount amount of that one redemption.
C16_Step ==
    \A p \in Procs :
        (Commit(p) /\ res[p].applicable /\ Camp(p).total_budget_limit # None) =>
            GivenIn(budget', req[p].campaign) - Camp(p).total_budget_limit
                <= res[p].discount_amount
C16_BoundedOvershoot == [][C16_Step]_vars

\* ---------------------------------------------------------------------
\* C17  Rejected redeem has no effect: the return of a redemption that
\* is not applicable (for a rule reason or the race reason) leaves every
\* txn_count and every total_discount_given as before the call and
\* creates no ledger row.
C17_Step ==
    \A p \in Procs :
        (Commit(p) /\ ~res[p].applicable) => usage' = usage /\ budget' = budget
C17_RejectedRedeemNoEffect == [][C17_Step]_vars

\* ---------------------------------------------------------------------
\* C18  Budget cap for every set limit: for a campaign whose
\* total_budget_limit is set (0.00 included), a preview that passes checks
\* 1-4 with nothing left of the limit is rejected as budget-exhausted, and
\* the commit of a successful redemption adds its discount to
\* total_discount_given.
C18_State ==
    \A p \in Procs :
        (/\ HasPreview(p) /\ PassesFirstFour(p)
         /\ Camp(p).total_budget_limit # None
         /\ Camp(p).total_budget_limit - Given(req[p].campaign) <= 0) =>
            (~res[p].applicable /\ res[p].reason = BUDGET_EXHAUSTED)

C18_Step ==
    \A p \in Procs :
        (Commit(p) /\ res[p].applicable /\ Camp(p).total_budget_limit # None) =>
            GivenIn(budget', req[p].campaign) =
                GivenIn(budget, req[p].campaign) + res[p].discount_amount

C18_EverySetLimitCaps == []C18_State /\ [][C18_Step]_vars

\* ---------------------------------------------------------------------
\* C19  Per-redemption cap: for a campaign whose max_discount_amount is
\* set (0.00 included), the discount_amount of every applicable preview
\* and of every successful redemption is at most max_discount_amount.
C19_WithinCap ==
    \A p \in Procs :
        (res[p].applicable /\ Camp(p).max_discount_amount # None) =>
            res[p].discount_amount <= Camp(p).max_discount_amount

\* ---------------------------------------------------------------------
\* C20  Day-exhaustion: for an active campaign with run_days_limit set to
\* R, a call that made its schedule checks on day d passes them exactly
\* when start_date <= d <= start_date + R - 1, whatever end_date is.
C20_RunDays ==
    \A p \in Procs :
        (/\ pc[p] \notin {"idle", "sched", "exh"}
         /\ Camp(p).is_active
         /\ Camp(p).run_days_limit # None
         /\ loc[p].dWin # None /\ loc[p].dExh \in {None, loc[p].dWin}) =>
            LET c == Camp(p)
                d == loc[p].dWin
                passed == ~(pc[p] \in {"ret", "commit"}
                            /\ res[p].reason = OUT_OF_SCHEDULE)
            IN passed = (c.start_date <= d /\ d <= c.start_date + c.run_days_limit - 1)

\* ---------------------------------------------------------------------
\* C21  Ledger accounting: in every reachable state, under any interleaving
\* of concurrent redemptions, total_discount_given of every campaign with a
\* budget limit (one that redeem_discount takes as a cap: set and not 0.00)
\* equals the sum of the discount_amount values returned by the committed
\* successful redemptions of that campaign, and no step lowers it.
C21_State ==
    \A c \in Campaigns :
        Truthy(camp[c].total_budget_limit) => Given(c) = paid[c]

C21_Step ==
    \A c \in Campaigns :
        Truthy(camp[c].total_budget_limit) => GivenIn(budget', c) >= GivenIn(budget, c)

C21_LedgerExact == []C21_State /\ [][C21_Step]_vars

\* A redemption that read total_discount_given = 0 before another one
\* committed 40.00 is about to commit its own addition on top of it.
C21_Witness ==
    \E p \in Procs :
        /\ pc[p] = "commit" /\ res[p].applicable
        /\ loc[p].given = 0
        /\ Given(req[p].campaign) > 0
        /\ paid[req[p].campaign] = Given(req[p].campaign)
        /\ wB[p][req[p].campaign] = Given(req[p].campaign) + res[p].discount_amount

\* ---------------------------------------------------------------------
\* C22  Zero-discount fallback: a preview that passes checks 1-4 on a
\* budget that is not exhausted, and whose discount computes to 0.00
\* (PERCENT value 0, FLAT value 0, or a base whose percentage is below
\* 0.01), is not applicable, with the 'not applicable' reason and
\* discount_amount 0; no applicable result of preview_discount or
\* redeem_discount carries a discount_amount <= 0.
ZeroDiscountCase(p) ==
    \/ Camp(p).discount_value = 0
    \/ Camp(p).discount_type = PERCENT /\ RefBase(p) * Camp(p).discount_value < Micro

C22_ZeroFallback ==
    \A p \in Procs :
        /\ (/\ HasPreview(p) /\ PassesFirstFour(p)
            /\ ~(RefRemaining(p) # None /\ RefRemaining(p) <= 0)
            /\ ZeroDiscountCase(p)) =>
               res[p] = [applicable |-> FALSE, reason |-> NOT_APPLICABLE,
                         discount_amount |-> 0, applies_to |-> Camp(p).applies_to]
        /\ res[p].applicable => res[p].discount_amount > 0

\* A FLAT campaign of value 0.00 with budget left, asked by its customer.
C22_Witness ==
    \E p \in Procs :
        /\ pc[p] = "ret" /\ PassesFirstFour(p)
        /\ Camp(p).discount_type = FLAT /\ Camp(p).discount_value = 0
        /\ RefRemaining(p) # None /\ RefRemaining(p) > 0
        /\ res[p].reason = NOT_APPLICABLE

\* ---------------------------------------------------------------------
\* C23  Termination: under fair scheduling, every started redemption that
\* no persistence fault aborts eventually returns, and the result it
\* returns is exactly one of the two outcomes: applicable with no reason
\* (SUCCEEDED) or not applicable with a reason (REJECTED).
C23_State ==
    \A p \in Procs :
        pc[p] = "commit" =>
            (res[p].applicable /\ res[p].reason = Missing)
                # (~res[p].applicable /\ res[p].reason # Missing)

C23_Terminates ==
    /\ []C23_State
    /\ \A p \in Procs : (pc[p] # "idle") ~> (pc[p] = "idle")

\* ---------------------------------------------------------------------
\* C24  Independence of ledgers: the commit of a redemption of campaign c
\* by customer u that locked the record of day d changes no usage row of
\* another campaign or customer, no txn_count of (c, u) on another day and
\* no budget row of another campaign; and the count a call finds on a day
\* is the number of redemptions made on that very day, so usage of one day
\* takes nothing from the redemptions left on another.
C24_Step ==
    \A p \in Procs :
        (Commit(p) /\ InTxn(p)) =>
            LET c == req[p].campaign
                u == req[p].customer
            IN /\ \A k \in Keys : (k[1] # c \/ k[2] # u) => usage'[k] = usage[k]
               /\ \A d \in Days : d # loc[p].dLock =>
                     CntIn(usage', <<c, u, d>>) = CntIn(usage, <<c, u, d>>)
               /\ \A c2 \in Campaigns \ {c} : budget'[c2] = budget[c2]

C24_State ==
    \A p \in Procs :
        loc[p].cnt # None =>
            loc[p].cnt = succ[<<req[p].campaign, req[p].customer, loc[p].dLeft>>]

C24_Independence == []C24_State /\ [][C24_Step]_vars

\* A customer who used up day 0 redeems again on day 1, after the other
\* customer and the other campaign were served too.
C24_Witness ==
    \E p \in Procs :
        /\ pc[p] = "commit" /\ res[p].applicable /\ OneDay(p)
        /\ loc[p].dLock = 1
        /\ succ[<<req[p].campaign, req[p].customer, 0>>] = Camp(p).max_txn_per_customer_per_day
        /\ \E k \in Keys : k[1] = req[p].campaign /\ k[2] # req[p].customer /\ succ[k] > 0

\* ---------------------------------------------------------------------
\* C25  Selected base only: two previews of one campaign and customer on
\* the same ledger and day, with carts that agree on the selected amount
\* (subtotal for CART, delivery for DELIVERY), have the same result; a
\* preview that passes checks 1-3 is rejected with 'nothing to discount'
\* exactly when the selected amount is not > 0; and the discount a FLAT
\* campaign computes (before max_discount_amount and the budget clamp) is
\* discount_value for every positive base.
Selected(c, cart) == IF c.applies_to = CART THEN cart.subtotal ELSE cart.delivery

C25_SelectedBaseOnly ==
    /\ (/\ pc[1] = "ret" /\ pc[2] = "ret"
        /\ req[1].campaign = req[2].campaign /\ req[1].customer = req[2].customer
        /\ loc[1].epoch = epoch
        /\ Selected(Camp(1), req[1].cart) = Selected(Camp(2), req[2].cart))
           => res[1] = res[2]
    /\ \A p \in Procs :
          /\ (/\ HasPreview(p) /\ RefSchedule(p) /\ RefEligible(p)
              /\ RefUsed(p) < Camp(p).max_txn_per_customer_per_day) =>
                 ((res[p].reason = NOTHING_TO_DISCOUNT)
                     = (Selected(Camp(p), req[p].cart) <= 0))
          /\ (/\ loc[p].disc # None /\ Camp(p).discount_type = FLAT
              /\ Selected(Camp(p), req[p].cart) > 0
              /\ Camp(p).max_discount_amount = None) =>
                 /\ loc[p].disc = Camp(p).discount_value
                 /\ (HasPreview(p) /\ (RefRemaining(p) = None
                                       \/ RefRemaining(p) >= Camp(p).discount_value))
                       => (res[p].applicable
                           /\ res[p].discount_amount = Camp(p).discount_value)

\* Two previews of a FLAT campaign whose carts differ only in the amount
\* that is not selected: both applicable with discount_value.
C25_Witness ==
    /\ pc[1] = "ret" /\ pc[2] = "ret"
    /\ req[1].campaign = req[2].campaign
    /\ loc[1].epoch = epoch
    /\ Camp(1).discount_type = FLAT
    /\ req[1].cart # req[2].cart
    /\ Selected(Camp(1), req[1].cart) = Selected(Camp(2), req[2].cart)
    /\ res[1].applicable /\ res[2].applicable
    /\ res[2].discount_amount = Camp(2).discount_value

\* ---------------------------------------------------------------------
\* C26  The race reason needs an interleaving: when calls run one at a
\* time and a call reads the same date throughout, no redemption returns
\* the 'race: daily limit reached' reason, and a redemption that passes
\* checks 1-2 with the daily cap of its record reached is rejected before
\* the lock with the 'daily usage limit reached' reason.
DatesRead(p) == {loc[p].dWin, loc[p].dExh, loc[p].dLeft, loc[p].dLock} \ {None}

C26_NoRaceSequentially ==
    \A p \in Procs :
        (pc[p] = "commit" /\ Cardinality(DatesRead(p)) <= 1) =>
            /\ res[p].reason # RACE_DAILY_LIMIT
            /\ (/\ RefSchedule(p) /\ RefEligible(p)
                /\ succ[<<req[p].campaign, req[p].customer, loc[p].dLeft>>]
                      >= Camp(p).max_txn_per_customer_per_day) =>
                   /\ res[p] = [applicable |-> FALSE, reason |-> DAILY_LIMIT_REACHED,
                                discount_amount |-> 0,
                                applies_to |-> Camp(p).applies_to]
                   /\ loc[p].dLock = None

\* The redemption after the last one the cap allows: turned away by
\* preview_discount, never reaching the locked lookup.
C26_Witness ==
    \E p \in Procs :
        /\ pc[p] = "commit" /\ Cardinality(DatesRead(p)) = 1
        /\ loc[p].dLock = None
        /\ res[p].reason = DAILY_LIMIT_REACHED
        /\ succ[<<req[p].campaign, req[p].customer, loc[p].dLeft>>]
              = Camp(p).max_txn_per_customer_per_day

\* ---------------------------------------------------------------------
\* C27  Preview/redeem agreement: a redemption started with no other call
\* in flight, right after a preview of the same campaign, customer and
\* cart (no date change and no redemption since the preview began),
\* succeeds exactly when the preview was applicable, then with the same
\* discount_amount and applies_to, and otherwise returns the preview's reason.
C27_Agreement ==
    (/\ pc[1] = "ret" /\ req[1].kind = "preview"
     /\ pc[2] = "commit" /\ req[2] = [req[1] EXCEPT !.kind = "redeem"]
     /\ loc[1].epoch = epoch) =>
        /\ res[2].applicable = res[1].applicable
        /\ res[1].applicable =>
              /\ res[2].discount_amount = res[1].discount_amount
              /\ res[2].applies_to = res[1].applies_to
        /\ ~res[1].applicable => res[2].reason = res[1].reason

\* After an earlier redemption, a preview announces a discount and the
\* redemption that follows it has gone through the locked re-check.
C27_Witness ==
    /\ pc[1] = "ret" /\ req[1].kind = "preview"
    /\ pc[2] = "commit" /\ req[2] = [req[1] EXCEPT !.kind = "redeem"]
    /\ loc[1].epoch = epoch
    /\ res[1].applicable /\ res[2].applicable
    /\ loc[2].dLock # None
    /\ \E k \in Keys : succ[k] > 0

\* ---------------------------------------------------------------------
\* C28  One date per redemption: whatever the date does between the reads
\* of one redeem_discount, a redemption that goes through increments the
\* usage record of a date on which the campaign passes the schedule check
\* (active, within start_date .. end_date, run days not used up), and the
\* record it locked is the record its pre-lock check read.
C28_OneDate ==
    \A p \in Procs :
        (pc[p] \in {"block", "commit"} /\ res[p].applicable /\ loc[p].dLock # None) =>
            LET c == Camp(p)
                d == loc[p].dLock
            IN /\ c.is_active
               /\ c.start_date <= d /\ d <= c.end_date
               /\ ~(c.run_days_limit \notin {None, 0}
                    /\ d > c.start_date + (c.run_days_limit - 1))
               /\ loc[p].dLeft = d

\* ---------------------------------------------------------------------
\* C29  days_left agrees with the schedule check: the days_left shown for a
\* campaign on day d is never negative and is 0 when d > end_date; it is
\* >= 1 on every day d with start_date <= d <= end_date on which the run
\* days are not used up, so also whenever a preview of the active campaign
\* made on day d gets past the schedule check; and a days_left of 0 shown
\* on a day d >= start_date means that the schedule check fails on day d.
PassesScheduleOn(c, d) ==
    /\ c.start_date <= d /\ d <= c.end_date
    /\ ~(c.run_days_limit # None /\ d > c.start_date + (c.run_days_limit - 1))

C29_DaysLeftAgrees ==
    \A c \in Campaigns :
        shown[c] # NotShown =>
            LET n == shown[c].days_left
                d == shown[c].today
            IN /\ n >= 0
               /\ d > camp[c].end_date => n = 0
               /\ PassesScheduleOn(camp[c], d) => n >= 1
               /\ \A p \in Procs :
                     (/\ pc[p] = "ret" /\ req[p].campaign = c
                      /\ DatesRead(p) = {d}
                      /\ res[p].reason # OUT_OF_SCHEDULE) => n >= 1
               /\ (n = 0 /\ d >= camp[c].start_date) => ~PassesScheduleOn(camp[c], d)

====
